---- MODULE Spec2Model ----
(***************************************************************************)
(* Model of utils/rag_utils.py (roshanpbabu/Next-Gen-Marketer): the row to *)
(* document pipeline (key derivation, text assembly and chunking, metadata *)
(* projection, batched embed-and-upsert), the query helper and the lazily  *)
(* initialised embedder.                                                   *)
(*                                                                         *)
(* Python strings are sequences of one-character strings.  A cell value is *)
(* a record [t, s, n]: a string (t = "str", its characters in s), an       *)
(* integer (t = "int", its value in n), the missing marker NaN (t = "nan") *)
(* or, in metadata only, Python's None (t = "none").                       *)
(***************************************************************************)
EXTENDS Integers, Sequences, FiniteSets, TLC

\* ------------------------------------------------------------------ bounds
\* Longest text given to chunk_text, and largest max_chars, in SpecChunk.
MaxLen == 4
MaxChunkChars == 3
\* Most rows of a dataset, and largest batch_size, in Spec.
MaxRows == 3
MaxBatch == 2
\* Most get_embedder/_embed calls in SpecEmb.
MaxCalls == 3

\* ----------------------------------------------------------------- strings
Min(a, b) == IF a <= b THEN a ELSE b

CeilDiv(a, b) == (a + b - 1) \div b

\* The whitespace of the model's alphabet (str.strip() removes whitespace).
WS == {" "}

RECURSIVE LStrip(_)
LStrip(s) == IF s = <<>> THEN s
             ELSE IF Head(s) \in WS THEN LStrip(Tail(s)) ELSE s

RECURSIVE RStrip(_)
RStrip(s) == IF s = <<>> THEN s
             ELSE IF s[Len(s)] \in WS THEN RStrip(SubSeq(s, 1, Len(s) - 1)) ELSE s

\* str.strip()
Strip(s) == RStrip(LStrip(s))

\* sep.join(parts)
RECURSIVE Join(_, _)
Join(parts, sep) ==
    IF parts = <<>> THEN <<>>
    ELSE IF Len(parts) = 1 THEN parts[1]
    ELSE parts[1] \o sep \o Join(Tail(parts), sep)

\* The concatenation of a sequence of strings.
RECURSIVE Concat(_)
Concat(ss) == IF ss = <<>> THEN <<>> ELSE Head(ss) \o Concat(Tail(ss))

\* All strings over alphabet A of length lo..hi.
StringsOver(A, lo, hi) == UNION {[1..n -> A] : n \in lo..hi}

\* ------------------------------------------------------------- cell values
SV(s) == [t |-> "str", s |-> s, n |-> 0]
IV(n) == [t |-> "int", s |-> <<>>, n |-> n]
NaN == [t |-> "nan", s |-> <<>>, n |-> 0]
PyNone == [t |-> "none", s |-> <<>>, n |-> 0]

DigitChar == <<"0", "1", "2", "3", "4", "5", "6", "7", "8", "9">>

RECURSIVE IntStr(_)
IntStr(n) == IF n < 10 THEN <<DigitChar[n + 1]>>
             ELSE IntStr(n \div 10) \o <<DigitChar[(n % 10) + 1]>>

\* str(v) of a cell value: a string is itself, a non-negative integer its decimal
\* digits, the missing marker "nan", None "None".
Str(v) == CASE v.t = "str" -> v.s
            [] v.t = "int" -> IntStr(v.n)
            [] v.t = "nan" -> <<"n", "a", "n">>
            [] OTHER -> <<"N", "o", "n", "e">>

\* pd.isna(v): the missing marker (and None).
IsNa(v) == v.t \in {"nan", "none"}

\* row.get(c, default): a row is a function from its column names to values.
RowGet(row, c, default) == IF c \in DOMAIN row THEN row[c] ELSE default

\* row.values: the values in column order.
RowValues(row, cols) == [k \in 1..Len(cols) |-> row[cols[k]]]

\* ------------------------------------------------------------ key deriver
\* chunk_index=None.
NoChunk == -1

\* id_cols=None; an empty list is as falsy at `if id_cols:`.
NoCols == <<>>

StrAll(vals) == [k \in 1..Len(vals) |-> Str(vals[k])]

\* _row_to_key(row, id_cols, chunk_index)
_row_to_key(row, cols, id_cols, chunk_index) ==
    LET parts == IF id_cols # <<>>
                 THEN [k \in 1..Len(id_cols) |-> Str(RowGet(row, id_cols[k], SV(<<>>)))]
                 ELSE StrAll(RowValues(row, cols))
        all == IF chunk_index # NoChunk
               THEN Append(parts, IntStr(chunk_index))
               ELSE parts
    IN Join(all, <<"|">>)

\* hashlib.md5(key.encode("utf-8")).hexdigest(), idealised as collision-free: the
\* digest determines the key.
Md5(key) == <<"#">> \o key

\* stable_id_from_row(row, id_cols, id_prefix)
stable_id_from_row(row, cols, id_cols, id_prefix) ==
    id_prefix \o Md5(_row_to_key(row, cols, id_cols, NoChunk))

\* ---------------------------------------------------------------- chunker
\* chunk_text with the window count rounded down: the last, shorter window is lost.
chunk_text_floor(text, max_chars) ==
    IF text = <<>> THEN <<>>
    ELSE LET t == Strip(text)
         IN IF Len(t) <= max_chars THEN <<t>>
            ELSE [k \in 1..(Len(t) \div max_chars) |->
                     SubSeq(t, (k - 1) * max_chars + 1, k * max_chars)]

\* chunk_text(text, max_chars)
chunk_text(text, max_chars) ==
    IF text = <<>> THEN <<>>
    ELSE LET t == Strip(text)
         IN IF Len(t) <= max_chars THEN <<t>>
            ELSE [k \in 1..CeilDiv(Len(t), max_chars) |->
                     SubSeq(t, (k - 1) * max_chars + 1, Min(k * max_chars, Len(t)))]

\* ------------------------------------------------- text assembler, metadata
\* The column's dtype is object: it holds a string (an all-integer column is int64,
\* an integer/NaN or all-NaN column float64).
DtypeObject(d, c) == \E r \in 1..Len(d) : d[r][c].t = "str"

\* text_cols as resolved from text_cols=None (the caller, ingest.py, passes None).
ResolveTextCols(d, cols, auto_text_only) ==
    IF auto_text_only
    THEN LET objs == SelectSeq(cols, LAMBDA c : DtypeObject(d, c))
         IN IF objs = <<>> THEN cols ELSE objs
    ELSE cols

\* The document text of a row: its non-missing text cells, joined by " | ".
AssembleText(row, text_cols) ==
    LET present == SelectSeq(text_cols, LAMBDA c : ~IsNa(RowGet(row, c, PyNone)))
    IN Join([k \in 1..Len(present) |-> Str(row[present[k]])], <<" ", "|", " ">>)

\* chunk_text(text, max_chars_per_doc) or [""]
RowChunks(row, text_cols, max_chars) ==
    LET ch == chunk_text(AssembleText(row, text_cols), max_chars)
    IN IF ch = <<>> THEN << <<>> >> ELSE ch

\* The metadata of chunk i (from 0) of n: every meta column, a missing value as None;
\* "_chunk" and "_chunk_count" only when n > 1 (NoChunk: the key is absent).
MetaOf(row, meta_cols, i, n) ==
    [vals |-> [c \in {meta_cols[k] : k \in 1..Len(meta_cols)} |->
                  IF IsNa(RowGet(row, c, PyNone)) THEN PyNone ELSE row[c]],
     chunk |-> IF n > 1 THEN i ELSE NoChunk,
     count |-> IF n > 1 THEN n ELSE NoChunk]

\* The chunk index handed over for single-chunk rows too.
ChunkIndexAlways(i, n) == i

\* The chunk_index handed to _row_to_key for chunk i of n.
ChunkIndexArg(i, n) == IF n > 1 THEN i ELSE NoChunk

\* The fallback key: every value of the row, then "|chunk:<i>".
fallback_key(row, cols, i) ==
    Join(StrAll(RowValues(row, cols)), <<"|">>)
        \o <<"|", "c", "h", "u", "n", "k", ":">> \o IntStr(i)

\* The key hashed into the id of chunk i of n.
DocKey(row, cols, id_cols, i, n) ==
    IF id_cols # <<>>
    THEN _row_to_key(row, cols, id_cols, ChunkIndexArg(i, n))
    ELSE fallback_key(row, cols, i)

doc_id(row, cols, id_cols, id_prefix, i, n) ==
    id_prefix \o Md5(DocKey(row, cols, id_cols, i, n))

\* ----------------------------------------------------- embedder, the store
\* SentenceTransformer.encode on one text: a deterministic function of the text.
Encode(t) == <<"vec", t>>

\* _embed(texts): one vector per text, in order.
_embed(texts) == [k \in 1..Len(texts) |-> Encode(texts[k])]

\* The documents of a batch: the buffered ids, texts and metadata with the embeddings
\* of the texts.
Docs(batch) ==
    LET embeddings == _embed([k \in 1..Len(batch) |-> batch[k].text])
    IN [k \in 1..Len(batch) |->
           [id |-> batch[k].id, text |-> batch[k].text, meta |-> batch[k].meta,
            emb |-> embeddings[k]]]

\* A store that adds the document whether or not it holds the id.
UpsertOneAdd(st, doc) == Append(st, doc)

\* Collection.upsert of one document: an id the collection holds is overwritten.
UpsertOne(st, doc) ==
    IF \E k \in 1..Len(st) : st[k].id = doc.id
    THEN [k \in 1..Len(st) |-> IF st[k].id = doc.id THEN doc ELSE st[k]]
    ELSE Append(st, doc)

\* Collection.upsert(documents, metadatas, ids, embeddings)
RECURSIVE StoreUpsert(_, _)
StoreUpsert(st, docs) ==
    IF docs = <<>> THEN st ELSE StoreUpsert(UpsertOne(st, Head(docs)), Tail(docs))

\* A flush that swallows the failure of _embed and writes the batch all the same.
FlushWriteSwallow(st, batch, outcome) ==
    IF outcome = "store" THEN st ELSE StoreUpsert(st, Docs(batch))

\* What a flush leaves in the collection: _embed or upsert raising leaves it as it
\* was (the store's upsert is one unit of work).
FlushWrite(st, batch, outcome) ==
    IF outcome = "ok" THEN StoreUpsert(st, Docs(batch)) ELSE st

\* The flush test with > for >=.
ShouldFlushAbove(b, batch_size) == Len(b) > batch_size

\* `if len(docs_batch) >= batch_size`
ShouldFlush(b, batch_size) == Len(b) >= batch_size

\* The flush check inside the chunk loop.
AtFlushCheckEveryChunk(done, n) == TRUE

\* Whether control is at the flush check after chunk number done (of n) of a row was
\* buffered: the check follows the chunk loop, it is not inside it.
AtFlushCheck(done, n) == done = n

VARIABLES
    \* Spec: upsert_dataframe_as_docs, run twice over one dataset
    df,         \* the dataset: a sequence of rows
    autoText,   \* auto_text_only
    idCols,     \* id_cols (NoCols: None)
    batchSize,  \* batch_size
    maxChars,   \* max_chars_per_doc
    store,      \* the namespace's documents, in insertion order
    prior,      \* the namespace's documents when the current run started
    docs_batch, \* with ids_batch and metas_batch, as one list of entries; an entry's
                \* row is the index of the row it came from
    ri,         \* the row of the loop (from 1)
    ci,         \* chunks of row ri buffered so far
    pc,
    calls,      \* the batches the current run has upserted, in order
    run,        \* 1: the first ingestion, 2: the repeated one
    exc,        \* the exception the current run raised to its caller, or "none"
    \* SpecChunk: one call of chunk_text
    text, maxc, chunks, cpc,
    \* SpecKeys: the keys of one chunk of each of two rows of a dataset
    rowA, rowB, kIdCols, chunkA, chunkB, keyA, keyB, kpc,
    \* SpecQuery: one call of query_namespace
    qExists,    \* the namespace exists before the call
    qResults,   \* what the store's query returns when it does not raise
    qFetch,     \* how get_collection ended: "ok", "raised" ("": not called)
    qQuery,     \* how coll.query ended
    qHits,      \* the list returned
    qpc,
    \* SpecEmb: get_embedder and _embed, called from two threads
    _EMBEDDER,   \* the global _EMBEDDER
    built,      \* the models constructed, in order
    tpc,        \* each thread's position in get_embedder
    targ,       \* each thread's model_name
    requested,  \* the model_name of each finished call, in order of return
    returned,   \* the instance each finished call returned
    overlapped  \* a call started while another was in progress

ingestVars == <<df, autoText, idCols, batchSize, maxChars, store, prior, docs_batch, ri, ci,
                pc, calls, run, exc>>
chunkVars == <<text, maxc, chunks, cpc>>
keyVars == <<rowA, rowB, kIdCols, chunkA, chunkB, keyA, keyB, kpc>>
queryVars == <<qExists, qResults, qFetch, qQuery, qHits, qpc>>
embVars == <<_EMBEDDER, built, tpc, targ, requested, returned, overlapped>>
vars == <<ingestVars, chunkVars, keyVars, queryVars, embVars>>
notIngest == <<chunkVars, keyVars, queryVars, embVars>>
notChunk == <<ingestVars, keyVars, queryVars, embVars>>
notKeys == <<ingestVars, chunkVars, queryVars, embVars>>
notQuery == <<ingestVars, chunkVars, keyVars, embVars>>
notEmb == <<ingestVars, chunkVars, keyVars, queryVars>>

\* -------------------------------------------------------------------- Spec
IngCols == <<"k", "t">>

\* id_prefix, as ingest.py passes it.
IdPrefix == <<"s", "-">>

\* A row with columns k and t.
MkRow(k, t) == [c \in {"k", "t"} |-> IF c = "k" THEN k ELSE t]

\* The rows datasets are made of: short and long text, a missing text, and two rows
\* that share the value of k.
RowSet == {MkRow(IV(1), SV(<<"x">>)), MkRow(IV(1), SV(<<"x", "y", "z">>)),
           MkRow(IV(2), SV(<<"x", "y", "z">>)), MkRow(IV(2), NaN)}

Datasets == UNION {[1..n -> RowSet] : n \in 0..MaxRows}

\* What the namespace holds before the first run: a document left by an earlier
\* ingestion under the id of the rows whose k is 1, and one under another id.
StaleDoc(id) == [id |-> id, text |-> <<"o", "l", "d">>,
                 meta |-> [vals |-> [c \in {"k"} |-> IV(0)], chunk |-> NoChunk,
                           count |-> NoChunk],
                 emb |-> Encode(<<"o", "l", "d">>)]

InitialStore == <<StaleDoc(IdPrefix \o Md5(<<"1">>)), StaleDoc(IdPrefix \o Md5(<<"9">>))>>

ChunkIdle == text = <<>> /\ maxc = 1 /\ chunks = <<>> /\ cpc = "off"

\* An instance of the embedding model: the model_name it was constructed with and
\* its number among the instances constructed; NoInstance is None.
NoInstance == [model |-> "", serial |-> 0]

Threads == {1, 2}

KeysIdle ==
    /\ rowA = <<>> /\ rowB = <<>> /\ kIdCols = <<>> /\ chunkA = <<0, 1>>
    /\ chunkB = <<0, 1>> /\ keyA = <<>> /\ keyB = <<>> /\ kpc = "off"

QueryIdle ==
    /\ qExists = FALSE /\ qResults = <<>> /\ qFetch = "" /\ qQuery = ""
    /\ qHits = <<>> /\ qpc = "off"

EmbIdle ==
    /\ _EMBEDDER = NoInstance /\ built = <<>> /\ tpc = [t \in Threads |-> "off"]
    /\ targ = [t \in Threads |-> ""] /\ requested = <<>> /\ returned = <<>>
    /\ overlapped = FALSE

IngestStart ==
    /\ df \in Datasets
    /\ autoText \in BOOLEAN
    /\ idCols \in {NoCols, <<"k">>}
    /\ batchSize \in 1..MaxBatch
    /\ maxChars \in {2, 8}
    /\ store = InitialStore
    /\ prior = InitialStore
    /\ docs_batch = <<>>
    /\ ri = 0
    /\ ci = 0
    /\ pc = "call"
    /\ calls = <<>>
    /\ run = 1
    /\ exc = "none"

Init == IngestStart /\ ChunkIdle /\ KeysIdle /\ QueryIdle /\ EmbIdle

params == <<df, autoText, idCols, batchSize, maxChars>>

TextCols == ResolveTextCols(df, IngCols, autoText)

\* The chunks of row r of the dataset.
ChunksOf(r) == RowChunks(df[r], TextCols, maxChars)

\* The buffer entry of chunk i (from 0) of row r.
EntryOf(r, i) ==
    LET n == Len(ChunksOf(r))
    IN [id |-> doc_id(df[r], IngCols, idCols, IdPrefix, i, n),
        text |-> ChunksOf(r)[i + 1],
        meta |-> MetaOf(df[r], IngCols, i, n),
        row |-> r]

\* The loop position after the chunks numbered below c of row r are buffered.
NextPc(r, c) ==
    IF c < Len(ChunksOf(r)) THEN "chunk"
    ELSE IF r < Len(df) THEN "chunk" ELSE "final"

NextRi(r, c) == IF c < Len(ChunksOf(r)) THEN r ELSE r + 1

NextCi(r, c) == IF c < Len(ChunksOf(r)) THEN c ELSE 0

\* The call: an empty dataset returns at once; otherwise the columns are resolved and
\* the collection fetched (get_or_create), which may raise.
Call ==
    /\ pc = "call"
    /\ IF Len(df) = 0
       THEN /\ pc' = "done"
            /\ UNCHANGED <<ri, exc>>
       ELSE \E ok \in BOOLEAN :
              IF ok
              THEN pc' = "chunk" /\ ri' = 1 /\ UNCHANGED exc
              ELSE pc' = "raised" /\ exc' = "store" /\ UNCHANGED ri
    /\ UNCHANGED <<params, store, prior, docs_batch, ci, calls, run, notIngest>>

\* One pass of the chunk loop: the entry of chunk ci of row ri is appended; after the
\* row's last chunk comes the flush check.
AppendChunk ==
    /\ pc = "chunk"
    /\ docs_batch' = Append(docs_batch, EntryOf(ri, ci))
    /\ IF AtFlushCheck(ci + 1, Len(ChunksOf(ri))) /\ ShouldFlush(docs_batch', batchSize)
       THEN pc' = "flush" /\ ci' = ci + 1 /\ UNCHANGED ri
       ELSE /\ pc' = NextPc(ri, ci + 1)
            /\ ri' = NextRi(ri, ci + 1)
            /\ ci' = NextCi(ri, ci + 1)
    /\ UNCHANGED <<params, store, prior, calls, run, exc, notIngest>>

\* The flush in the loop: embed, upsert, clear the buffer; either call may raise.
Flush ==
    /\ pc = "flush"
    /\ \E outcome \in {"ok", "embed", "store"} :
        /\ store' = FlushWrite(store, docs_batch, outcome)
        /\ IF outcome = "ok"
           THEN /\ calls' = Append(calls, docs_batch)
                /\ docs_batch' = <<>>
                /\ pc' = NextPc(ri, ci)
                /\ ri' = NextRi(ri, ci)
                /\ ci' = NextCi(ri, ci)
                /\ UNCHANGED exc
           ELSE /\ pc' = "raised"
                /\ exc' = outcome
                /\ UNCHANGED <<calls, docs_batch, ri, ci>>
    /\ UNCHANGED <<params, prior, run, notIngest>>

\* After the loop: what is left in the buffer is embedded and upserted.
FinalFlush ==
    /\ pc = "final"
    /\ IF docs_batch = <<>>
       THEN pc' = "done" /\ UNCHANGED <<store, calls, exc>>
       ELSE \E outcome \in {"ok", "embed", "store"} :
              /\ store' = FlushWrite(store, docs_batch, outcome)
              /\ IF outcome = "ok"
                 THEN calls' = Append(calls, docs_batch) /\ pc' = "done" /\ UNCHANGED exc
                 ELSE pc' = "raised" /\ exc' = outcome /\ UNCHANGED calls
    /\ UNCHANGED <<params, prior, docs_batch, ri, ci, run, notIngest>>

\* The caller ingests the same dataset again, with the same parameters.
Rerun ==
    /\ pc = "done"
    /\ run = 1
    /\ run' = 2
    /\ prior' = store
    /\ pc' = "call"
    /\ docs_batch' = <<>>
    /\ calls' = <<>>
    /\ ri' = 0
    /\ ci' = 0
    /\ UNCHANGED <<params, store, exc, notIngest>>

Next == Call \/ AppendChunk \/ Flush \/ FinalFlush \/ Rerun

Spec == Init /\ [][Next]_vars

IngestIdle ==
    /\ df = <<>> /\ autoText = FALSE /\ idCols = NoCols /\ batchSize = 1
    /\ maxChars = 1 /\ store = <<>> /\ prior = <<>> /\ docs_batch = <<>> /\ ri = 0 /\ ci = 0
    /\ pc = "off" /\ calls = <<>> /\ run = 1 /\ exc = "none"

\* --------------------------------------------------------------- SpecChunk
ChunkAlphabet == {" ", "a", "b"}

ChunkInit ==
    /\ text \in StringsOver(ChunkAlphabet, 1, MaxLen)
    /\ maxc \in 1..MaxChunkChars
    /\ chunks = <<>>
    /\ cpc = "start"
    /\ IngestIdle /\ KeysIdle /\ QueryIdle /\ EmbIdle

\* chunks = chunk_text(text, maxc)
CallChunkText ==
    /\ cpc = "start"
    /\ chunks' = chunk_text(text, maxc)
    /\ cpc' = "returned"
    /\ UNCHANGED <<text, maxc, notChunk>>

SpecChunk == ChunkInit /\ [][CallChunkText]_vars

\* ---------------------------------------------------------------- SpecKeys
KeyCols == <<"a", "b", "t">>

\* Most chunks of a row in SpecKeys.
MaxKeyChunks == 2

\* Cell values of the columns a and b: strings with and without the separator, the
\* missing marker and the string it prints as, an integer and the string it prints
\* as.
KeyVals == {SV(<<"x">>), SV(<<"x", "|", "x">>), NaN, SV(<<"n", "a", "n">>),
            IV(1), SV(<<"1">>)}

KeyRows == {[c \in {"a", "b", "t"} |-> IF c = "a" THEN a ELSE IF c = "b" THEN b ELSE t] :
               a \in KeyVals, b \in KeyVals, t \in {SV(<<"x">>)}}

\* <<i, n>>: chunk i (from 0) of a row that gives n chunks.
ChunkPositions == {p \in (0..(MaxKeyChunks - 1)) \X (1..MaxKeyChunks) : p[1] < p[2]}

KeysInit ==
    /\ rowA \in KeyRows
    /\ rowB \in KeyRows
    /\ kIdCols \in {NoCols, <<"a">>, <<"a", "b">>}
    /\ chunkA \in ChunkPositions
    /\ chunkB \in ChunkPositions
    /\ keyA = <<>>
    /\ keyB = <<>>
    /\ kpc = "start"
    /\ IngestIdle /\ ChunkIdle /\ QueryIdle /\ EmbIdle

\* The key of chunk chunkA of rowA and of chunk chunkB of rowB, as the loop of
\* upsert_dataframe_as_docs derives them.
DeriveKeys ==
    /\ kpc = "start"
    /\ keyA' = DocKey(rowA, KeyCols, kIdCols, chunkA[1], chunkA[2])
    /\ keyB' = DocKey(rowB, KeyCols, kIdCols, chunkB[1], chunkB[2])
    /\ kpc' = "derived"
    /\ UNCHANGED <<rowA, rowB, kIdCols, chunkA, chunkB, notKeys>>

SpecKeys == KeysInit /\ [][DeriveKeys]_vars

\* --------------------------------------------------------------- SpecQuery
\* The store's answer to a query: parallel lists, of which "ids" and "distances" may
\* be absent and "metadatas" short.
QueryResults ==
    {r \in [docs : StringsOver({"d1", "d2"}, 0, 2), nmetas : 0..2,
            hasIds : BOOLEAN, hasDists : BOOLEAN] : r.nmetas <= Len(r.docs)}

EmptyResults == [docs |-> <<>>, nmetas |-> 0, hasIds |-> TRUE, hasDists |-> TRUE]

\* The hits built from a result: a field the result lacks is None ("") or {}.
Hits(r) ==
    [i \in 1..Len(r.docs) |->
        [id |-> IF r.hasIds THEN <<"id", i>> ELSE <<"None", 0>>,
         text |-> r.docs[i],
         metadata |-> IF i <= r.nmetas THEN <<"meta", i>> ELSE <<"empty", 0>>,
         distance |-> IF r.hasDists THEN <<"dist", i>> ELSE <<"None", 0>>]]

QueryInit ==
    /\ qExists \in BOOLEAN
    /\ qResults \in (IF qExists THEN QueryResults ELSE {EmptyResults})
    /\ qFetch = ""
    /\ qQuery = ""
    /\ qHits = <<>>
    /\ qpc = "call"
    /\ IngestIdle /\ ChunkIdle /\ KeysIdle /\ EmbIdle

\* try: coll = get_collection(namespace) / except Exception: return []
QGetCollection ==
    /\ qpc = "call"
    /\ \E ok \in BOOLEAN :
        IF ok
        THEN qFetch' = "ok" /\ qpc' = "query" /\ UNCHANGED qHits
        ELSE qFetch' = "raised" /\ qpc' = "returned" /\ qHits' = <<>>
    /\ UNCHANGED <<qExists, qResults, qQuery, notQuery>>

\* results = coll.query(...), outside the try; then the hits are built and returned.
QQuery ==
    /\ qpc = "query"
    /\ \E ok \in BOOLEAN :
        IF ok
        THEN qQuery' = "ok" /\ qpc' = "returned" /\ qHits' = Hits(qResults)
        ELSE qQuery' = "raised" /\ qpc' = "raised" /\ UNCHANGED qHits
    /\ UNCHANGED <<qExists, qResults, qFetch, notQuery>>

SpecQuery == QueryInit /\ [][QGetCollection \/ QQuery]_vars

\* ----------------------------------------------------------------- SpecEmb
DefaultModel == "all-MiniLM-L6-v2"

Models == {DefaultModel, "other"}

\* get_embedder without the test: it constructs at every call.
EmbedderNeverCached(e) == TRUE

\* `if _EMBEDDER is None`
EmbedderIsNone(e) == e = NoInstance

EmbInit ==
    /\ _EMBEDDER = NoInstance
    /\ built = <<>>
    /\ tpc = [t \in Threads |-> "idle"]
    /\ targ = [t \in Threads |-> ""]
    /\ requested = <<>>
    /\ returned = <<>>
    /\ overlapped = FALSE
    /\ IngestIdle /\ ChunkIdle /\ KeysIdle /\ QueryIdle

Started == Len(returned) + Cardinality({t \in Threads : tpc[t] # "idle"})

Enter(t, m) ==
    /\ tpc[t] = "idle"
    /\ Started < MaxCalls
    /\ tpc' = [tpc EXCEPT ![t] = "check"]
    /\ targ' = [targ EXCEPT ![t] = m]
    /\ overlapped' = (overlapped \/ \E u \in Threads \ {t} : tpc[u] # "idle")
    /\ UNCHANGED <<_EMBEDDER, built, requested, returned, notEmb>>

\* A thread calls get_embedder(model_name).
CallGetEmbedder(t) == \E m \in Models : Enter(t, m)

\* A thread calls _embed(texts, model_name), which calls
\* get_embedder(model_name or the default); "" is None.
CallEmbed(t) == \E name \in Models \cup {""} :
                    Enter(t, IF name = "" THEN DefaultModel ELSE name)

\* The test of _EMBEDDER.
Check(t) ==
    /\ tpc[t] = "check"
    /\ tpc' = [tpc EXCEPT ![t] = IF EmbedderIsNone(_EMBEDDER) THEN "construct" ELSE "return"]
    /\ UNCHANGED <<_EMBEDDER, built, targ, requested, returned, overlapped, notEmb>>

\* _EMBEDDER = SentenceTransformer(model_name)
Construct(t) ==
    /\ tpc[t] = "construct"
    /\ built' = Append(built, targ[t])
    /\ _EMBEDDER' = [model |-> targ[t], serial |-> Len(built) + 1]
    /\ tpc' = [tpc EXCEPT ![t] = "return"]
    /\ UNCHANGED <<targ, requested, returned, overlapped, notEmb>>

\* return _EMBEDDER
Return(t) ==
    /\ tpc[t] = "return"
    /\ returned' = Append(returned, _EMBEDDER)
    /\ requested' = Append(requested, targ[t])
    /\ tpc' = [tpc EXCEPT ![t] = "idle"]
    /\ UNCHANGED <<_EMBEDDER, built, targ, overlapped, notEmb>>

EmbNext == \E t \in Threads :
              CallGetEmbedder(t) \/ CallEmbed(t) \/ Check(t) \/ Construct(t) \/ Return(t)

SpecEmb == EmbInit /\ [][EmbNext]_vars

\* ================================================================== claims
\* The entries of row r, in chunk order.
RowEntries(r) == [i \in 1..Len(ChunksOf(r)) |-> EntryOf(r, i - 1)]

\* Every entry the dataset produces, in row and chunk order.
AllEntries == Concat([r \in 1..Len(df) |-> RowEntries(r)])

\* The batches of a run that flushes at the end of a row once the buffer holds
\* batchSize entries, and at the end whatever is left.
RECURSIVE BatchesFrom(_, _)
BatchesFrom(r, acc) ==
    IF r > Len(df) THEN (IF acc = <<>> THEN <<>> ELSE <<acc>>)
    ELSE LET a == acc \o RowEntries(r)
         IN IF Len(a) >= batchSize THEN <<a>> \o BatchesFrom(r + 1, <<>>)
            ELSE BatchesFrom(r + 1, a)

ExpectedBatches == BatchesFrom(1, <<>>)

\* The collection after the batches cs were upserted into st, one after the other.
RECURSIVE ApplyCalls(_, _)
ApplyCalls(st, cs) ==
    IF cs = <<>> THEN st ELSE ApplyCalls(StoreUpsert(st, Docs(Head(cs))), Tail(cs))

Elems(q) == {q[k] : k \in 1..Len(q)}

SingleChunkRows == \A r \in 1..Len(df) : Len(ChunksOf(r)) = 1

\* The entries written or buffered so far in the current run.
Produced == Concat(calls) \o docs_batch

\* C1: when the second ingestion of the same dataset with the same parameters has
\* returned, the namespace holds exactly the documents it held after the first one:
\* the same ids, each with the same text, metadata and embedding, no id twice and the
\* same number of documents.
C1_Idempotent ==
    (run = 2 /\ pc = "done") =>
        /\ Elems(store) = Elems(prior)
        /\ Len(store) = Len(prior)
        /\ \A a, b \in 1..Len(store) : store[a].id = store[b].id => a = b

\* A second run that returned, after several upsert calls that overwrote the
\* document an earlier ingestion had left and added new ones.
C1_Witness ==
    /\ run = 2 /\ pc = "done" /\ Len(calls) >= 2
    /\ Len(store) > Len(InitialStore)
    /\ store[1] # InitialStore[1]
    /\ \E r \in 1..Len(df) : Len(ChunksOf(r)) > 1

C3_Original ==
    cpc = "returned" =>
        IF Len(text) <= maxc THEN chunks = <<text>>
        ELSE /\ Len(chunks) = CeilDiv(Len(text), maxc)
             /\ \A k \in 1..Len(chunks) : Len(chunks[k]) \in 1..maxc
             /\ Concat(chunks) = text

\* C3, amended: chunk_text first strips the text of leading and trailing whitespace.
\* With s the stripped text, it gives the one chunk s when len(s) <= max_chars (the
\* empty chunk for a whitespace-only text), and otherwise ceil(len(s)/max_chars)
\* chunks, each of max_chars characters but a last one of 1..max_chars, that
\* concatenate to s.
C3_ChunksCoverStripped ==
    cpc = "returned" =>
        LET s == Strip(text)
        IN IF Len(s) <= maxc THEN chunks = <<s>>
           ELSE /\ Len(chunks) = CeilDiv(Len(s), maxc)
                /\ \A k \in 1..(Len(chunks) - 1) : Len(chunks[k]) = maxc
                /\ Len(chunks[Len(chunks)]) \in 1..maxc
                /\ Concat(chunks) = s

\* chunk_text has split a text that begins with whitespace into a full window and a
\* shorter last one.
C3_Witness ==
    /\ cpc = "returned"
    /\ Head(text) \in WS
    /\ Len(chunks) >= 2
    /\ Len(chunks[Len(chunks)]) < maxc

\* C4: without id columns, two rows with the same text-column value that differ in
\* another column get different fallback keys for the same chunk index.
C4_FallbackKeysDiffer ==
    (/\ kpc = "derived" /\ kIdCols = NoCols
     /\ rowA["t"] = rowB["t"]
     /\ \E c \in {"a", "b"} : rowA[c] # rowB[c]
     /\ chunkA[1] = chunkB[1])
        => keyA # keyB

\* C5: query_namespace never raises; it returns the empty list when the namespace does
\* not exist or the store fails fetching the collection or executing the query, and
\* the hits of the store's result otherwise.
C5_BestEffort ==
    qpc \in {"returned", "raised"} =>
        /\ qpc = "returned"
        /\ IF qFetch = "raised" \/ qQuery = "raised" \/ ~qExists
           THEN qHits = <<>>
           ELSE qHits = Hits(qResults)

\* C6: when a run has raised, it has stopped; the calls it made are the batches before
\* the one that failed, the failed batch is still in the buffer, and the namespace
\* holds what those calls wrote on top of what it held when the run started.
C6_FailureKeepsFlushed ==
    exc # "none" =>
        LET expected == ExpectedBatches
        IN /\ pc = "raised"
           /\ Len(calls) < Len(expected)
           /\ calls = SubSeq(expected, 1, Len(calls))
           /\ docs_batch # <<>> => docs_batch = expected[Len(calls) + 1]
           /\ store = ApplyCalls(prior, calls)
           /\ ~ENABLED Next

\* The embedding failed at the second flush or later of a run.
C6_Witness ==
    /\ exc = "embed" /\ pc = "raised"
    /\ Len(calls) >= 1
    /\ docs_batch # <<>>
    /\ store # prior

\* C7: with id columns, two rows that differ in an id column get different keys.
C7_IdKeysDiffer ==
    (/\ kpc = "derived" /\ kIdCols # NoCols
     /\ \E k \in 1..Len(kIdCols) : rowA[kIdCols[k]] # rowB[kIdCols[k]])
        => keyA # keyB

\* C8 as claimed: the id of every entry of a single-chunk row is
\* stable_id_from_row(row, id_cols, id_prefix), with and without id columns.
C8_Original ==
    LET produced == Produced
    IN \A k \in 1..Len(produced) :
        LET e == produced[k]
        IN Len(ChunksOf(e.row)) = 1 =>
              e.id = stable_id_from_row(df[e.row], IngCols, idCols, IdPrefix)

\* C8, amended: with id columns, the id of every entry of a single-chunk row is
\* stable_id_from_row(row, id_cols, id_prefix), which holds no chunk index; without
\* id columns it is id_prefix + md5 of the "|"-joined values of the row followed by
\* "|chunk:0", which is not stable_id_from_row's id.
C8_StableIdWithIdCols ==
    LET produced == Produced
    IN \A k \in 1..Len(produced) :
        LET e == produced[k]
            stable == stable_id_from_row(df[e.row], IngCols, idCols, IdPrefix)
        IN Len(ChunksOf(e.row)) = 1 =>
              IF idCols # NoCols
              THEN e.id = stable
              ELSE /\ e.id = IdPrefix \o Md5(_row_to_key(df[e.row], IngCols, NoCols, NoChunk)
                                               \o <<"|", "c", "h", "u", "n", "k", ":", "0">>)
                   /\ e.id # stable

\* A single-chunk row was written under id columns, beside a multi-chunk row.
C8_Witness ==
    /\ idCols # NoCols /\ pc = "done" /\ calls # <<>>
    /\ \E k \in 1..Len(Produced) : Len(ChunksOf(Produced[k].row)) = 1
    /\ \E k \in 1..Len(Produced) : Len(ChunksOf(Produced[k].row)) > 1

\* C9 as claimed: the model is constructed at most once and every call returns the
\* one instance, whatever the interleaving of the callers.
C9_Original ==
    /\ Len(built) <= 1
    /\ \A k \in 1..Len(returned) : returned[k] = [model |-> built[1], serial |-> 1]

\* C9, amended: get_embedder has no guard.  As long as no call has started while
\* another was in progress, the model is constructed at most once, with the
\* model_name of the first call, and every call returns that instance, whatever
\* model_name it asked for.
C9_OnceWhenSequential ==
    ~overlapped =>
        /\ Len(built) <= 1
        /\ \A k \in 1..Len(returned) :
              /\ returned[k] = [model |-> built[1], serial |-> 1]
              /\ built[1] = requested[1]

\* Calls that did not overlap, the first constructing, a later one asking for another
\* model and getting the first instance.
C9_Witness ==
    /\ ~overlapped
    /\ Len(returned) >= 2
    /\ \E k \in 1..Len(returned) : requested[k] # returned[k].model

\* C10: all chunks of a row are written by one upsert call: a call that holds an
\* entry of a row holds as many entries of it as the row has chunks.
C10_RowAtomic ==
    \A k \in 1..Len(calls) : \A m \in 1..Len(calls[k]) :
        Cardinality({x \in 1..Len(calls[k]) : calls[k][x].row = calls[k][m].row})
            = Len(ChunksOf(calls[k][m].row))

\* A call holds a multi-chunk row that took it past batch_size, after another row.
C10_Witness ==
    \E k \in 1..Len(calls) :
        /\ Len(calls[k]) > batchSize
        /\ calls[k][1].row # calls[k][Len(calls[k])].row
        /\ Len(ChunksOf(calls[k][Len(calls[k])].row)) > 1

====
